---- MODULE Spec2Model ----
(***************************************************************************)
(* Model of src/main.py: parallel() distributes the items of `data` over   *)
(* process_cnt worker processes through the queue `src`, and the workers   *)
(* share one progress line through the one-cell queue `shared` guarded by  *)
(* `lock`.                                                                 *)
(*                                                                         *)
(* Each statement of _worker and of parallel is one atomic step.  Both     *)
(* queues are modelled as FIFO sequences whose put is visible at once and  *)
(* whose timed get raises Empty exactly when the queue holds nothing (the  *)
(* 0.2 s timeout is assumed longer than any transfer delay of the queue).  *)
(* Items are identified by their position in `data`.  The text produced by *)
(* tqdm.format_meter is kept as the pair of its count and total arguments; *)
(* the elapsed time and the column width are left out.                     *)
(***************************************************************************)
EXTENDS Integers, Sequences, FiniteSets

VARIABLES data, process_cnt, index, mainPc, mi, src, shared, lock,
          pc, item, new_id, out, calls, failures

vars == <<data, process_cnt, index, mainPc, mi, src, shared, lock,
          pc, item, new_id, out, calls, failures>>

\* ---------------------------------------------------------------- bounds
MaxItems == 3
MaxProc == 2

\* ------------------------------------------------------------- constants
\* The lock is held by nobody (Lock() is created unlocked).
Free == -1
\* A worker holds no item.
NoItem == 0
\* First value of the progress counter: shared.put(0).
InitialCount == 0

\* The process counts tried: range(process_cnt) is empty for any value < 1.
ProcessCounts == {-1} \cup (0..MaxProc)

\* The exceptions a work invocation may raise: queue.Empty (or a subclass),
\* or anything else.
ExcKinds == {"Empty", "Other"}

\* ------------------------------------------------------------- helpers
Range(s) == {s[k] : k \in 1..Len(s)}

\* The indexes of the processes created by the list comprehension.
Workers == 0..(process_cnt - 1)

\* The index argument of the i-th process: args=(i, work, ...).
IndexArgZero(i) == 0

IndexArg(i) == i

\* for item in data: src.put(item)
EnqueueDropLast(d) == SubSeq(d, 1, Len(d) - 1)

EnqueueReversed(d) == [k \in 1..Len(d) |-> d[Len(d) + 1 - k]]

Enqueue(d) == d

\* len(data)
Length(d) == Len(d)

\* src.get(timeout=0.2) raises Empty when nothing is in the queue.
IsEmpty(q) == q = <<>>

\* The item a get returns, and what the queue holds afterwards.
GetItem(q) == Head(q)

RemainingPeek(q) == q

RemainingSkip(q) == IF Len(q) >= 2 THEN Tail(Tail(q)) ELSE Tail(q)

Remaining(q) == Tail(q)

\* shared.get() + 1
IncrementTwice(v) == v + 2

Increment(v) == v + 1

\* lock.acquire() proceeds only on an unlocked lock.
CanAcquireAlways(l) == TRUE

CanAcquire(l) == l = Free

\* lock.release()
ReleasedKept(l) == l

Released(l) == Free

\* The count handed to tqdm.format_meter by a worker.
RenderedCountStale(nid) == nid - 1

RenderedCount(nid) == nid

\* What is written to stderr: a progress line, or the final '\n'.
Meter(n, total) == <<"meter", n, total>>

Newline == <<"nl", 0, 0>>

\* The statements of one turn of the worker loop, in program order.
ProgramLockFirst == <<"get", "acquire", "work", "read", "render", "put", "release">>

ProgramReleaseFirst == <<"get", "work", "acquire", "read", "render", "release", "put">>

ProgramUpdateFirst == <<"get", "acquire", "read", "render", "put", "release", "work">>

Program == <<"get", "work", "acquire", "read", "render", "put", "release">>

IndexOf(l) == CHOOSE k \in 1..Len(Program) : Program[k] = l

\* The statement after l; the loop goes back to its first statement.
NextLabel(l) == Program[(IndexOf(l) % Len(Program)) + 1]

FirstLabel == Program[1]

\* except Empty: return.  Any other exception leaves _worker and ends the
\* process abnormally.
HandlerReraise(e) == "crashed"

HandlerContinue(e) == IF e = "Empty" THEN "done" ELSE "acquire"

Handler(e) == IF e = "Empty" THEN "done" ELSE "crashed"

\* A process that has ended, normally or not: join() returns for it.
EndedAlways(p) == TRUE

Ended(p) == p \in {"done", "crashed"}

\* ------------------------------------------------------------------ Init
\* The call parallel(work, data, process_cnt) is about to run.
Init ==
    /\ \E n \in 0..MaxItems : data = [k \in 1..n |-> k]
    /\ calls = [k \in 1..Len(data) |-> <<>>]
    /\ process_cnt \in ProcessCounts
    /\ mainPc = "call"
    /\ mi = 0
    /\ src = <<>>
    /\ shared = <<>>
    /\ lock = Free
    /\ index = <<>>
    /\ pc = <<>>
    /\ item = <<>>
    /\ new_id = <<>>
    /\ out = <<>>
    /\ failures = {}

\* ------------------------------------------------------------ parallel()
\* Lines 48-68: fill src, create the counter cell and the lock, write the
\* first progress line, create the Process objects.
Setup ==
    /\ mainPc = "call"
    /\ src' = Enqueue(data)
    /\ shared' = <<InitialCount>>
    /\ lock' = Free
    /\ out' = Append(out, Meter(0, Length(data)))
    /\ index' = [w \in Workers |-> IndexArg(w)]
    /\ pc' = [w \in Workers |-> "idle"]
    /\ item' = [w \in Workers |-> NoItem]
    /\ new_id' = [w \in Workers |-> 0]
    /\ mainPc' = "start"
    /\ mi' = 0
    /\ UNCHANGED <<data, process_cnt, calls, failures>>

\* for process in processes: process.start()
Start ==
    /\ mainPc = "start"
    /\ mi < process_cnt
    /\ pc' = [pc EXCEPT ![mi] = FirstLabel]
    /\ mi' = mi + 1
    /\ UNCHANGED <<data, process_cnt, index, mainPc, src, shared, lock, item, new_id,
                   out, calls, failures>>

StartDone ==
    /\ mainPc = "start"
    /\ ~(mi < process_cnt)
    /\ mainPc' = "join"
    /\ mi' = 0
    /\ UNCHANGED <<data, process_cnt, index, src, shared, lock, pc, item, new_id,
                   out, calls, failures>>

\* for process in processes: process.join()
Join ==
    /\ mainPc = "join"
    /\ mi < process_cnt
    /\ Ended(pc[mi])
    /\ mi' = mi + 1
    /\ UNCHANGED <<data, process_cnt, index, mainPc, src, shared, lock, pc, item,
                   new_id, out, calls, failures>>

JoinDone ==
    /\ mainPc = "join"
    /\ ~(mi < process_cnt)
    /\ mainPc' = "newline"
    /\ UNCHANGED <<data, process_cnt, index, mi, src, shared, lock, pc, item, new_id,
                   out, calls, failures>>

\* stderr.write('\n'), and parallel() returns.
WriteNewline ==
    /\ mainPc = "newline"
    /\ out' = Append(out, Newline)
    /\ mainPc' = "returned"
    /\ UNCHANGED <<data, process_cnt, index, mi, src, shared, lock, pc, item, new_id,
                   calls, failures>>

Main == Setup \/ Start \/ StartDone \/ Join \/ JoinDone \/ WriteNewline

\* -------------------------------------------------------------- _worker()
\* src.get(timeout=0.2) returns an item: the argument of work is evaluated.
Dequeue(w) ==
    /\ pc[w] = "get"
    /\ ~IsEmpty(src)
    /\ item' = [item EXCEPT ![w] = GetItem(src)]
    /\ src' = Remaining(src)
    /\ pc' = [pc EXCEPT ![w] = NextLabel("get")]
    /\ UNCHANGED <<data, process_cnt, index, mainPc, mi, shared, lock, new_id, out,
                   calls, failures>>

\* src.get(timeout=0.2) raises Empty, which the except clause handles.
DequeueEmpty(w) ==
    /\ pc[w] = "get"
    /\ IsEmpty(src)
    /\ pc' = [pc EXCEPT ![w] = Handler("Empty")]
    /\ UNCHANGED <<data, process_cnt, index, mainPc, mi, src, shared, lock, item,
                   new_id, out, calls, failures>>

\* work(index, item): the invocation is recorded with its outcome, as the
\* index argument appended to calls[item].  It returns, raises, or never comes
\* back (the worker then keeps its item).
WorkReturn(w) ==
    /\ pc[w] = "work"
    /\ calls' = [calls EXCEPT ![item[w]] = Append(@, index[w])]
    /\ item' = [item EXCEPT ![w] = NoItem]
    /\ pc' = [pc EXCEPT ![w] = NextLabel("work")]
    /\ UNCHANGED <<data, process_cnt, index, mainPc, mi, src, shared, lock, new_id,
                   out, failures>>

WorkRaise(w) ==
    /\ pc[w] = "work"
    /\ \E e \in ExcKinds :
          /\ failures' = failures \cup {<<w, item[w], e>>}
          /\ pc' = [pc EXCEPT ![w] = Handler(e)]
    /\ calls' = [calls EXCEPT ![item[w]] = Append(@, index[w])]
    /\ item' = [item EXCEPT ![w] = NoItem]
    /\ UNCHANGED <<data, process_cnt, index, mainPc, mi, src, shared, lock, new_id,
                   out>>

WorkHang(w) ==
    /\ pc[w] = "work"
    /\ calls' = [calls EXCEPT ![item[w]] = Append(@, index[w])]
    /\ pc' = [pc EXCEPT ![w] = "hung"]
    /\ UNCHANGED <<data, process_cnt, index, mainPc, mi, src, shared, lock, item,
                   new_id, out, failures>>

\* lock.acquire()
Acquire(w) ==
    /\ pc[w] = "acquire"
    /\ CanAcquire(lock)
    /\ lock' = w
    /\ pc' = [pc EXCEPT ![w] = NextLabel("acquire")]
    /\ UNCHANGED <<data, process_cnt, index, mainPc, mi, src, shared, item, new_id,
                   out, calls, failures>>

\* new_id = shared.get() + 1: the get has no timeout and waits for a value.
ReadCounter(w) ==
    /\ pc[w] = "read"
    /\ shared /= <<>>
    /\ new_id' = [new_id EXCEPT ![w] = Increment(Head(shared))]
    /\ shared' = Tail(shared)
    /\ pc' = [pc EXCEPT ![w] = NextLabel("read")]
    /\ UNCHANGED <<data, process_cnt, index, mainPc, mi, src, lock, item, out, calls,
                   failures>>

\* stderr.write(tqdm.format_meter(new_id, length, ...) + '\r')
Render(w) ==
    /\ pc[w] = "render"
    /\ out' = Append(out, Meter(RenderedCount(new_id[w]), Length(data)))
    /\ pc' = [pc EXCEPT ![w] = NextLabel("render")]
    /\ UNCHANGED <<data, process_cnt, index, mainPc, mi, src, shared, lock, item,
                   new_id, calls, failures>>

\* shared.put(new_id)
WriteCounter(w) ==
    /\ pc[w] = "put"
    /\ shared' = Append(shared, new_id[w])
    /\ pc' = [pc EXCEPT ![w] = NextLabel("put")]
    /\ UNCHANGED <<data, process_cnt, index, mainPc, mi, src, lock, item, new_id, out,
                   calls, failures>>

\* lock.release()
Release(w) ==
    /\ pc[w] = "release"
    /\ lock' = Released(lock)
    /\ pc' = [pc EXCEPT ![w] = NextLabel("release")]
    /\ UNCHANGED <<data, process_cnt, index, mainPc, mi, src, shared, item, new_id,
                   out, calls, failures>>

Worker(w) ==
    \/ Dequeue(w) \/ DequeueEmpty(w)
    \/ WorkReturn(w) \/ WorkRaise(w) \/ WorkHang(w)
    \/ Acquire(w) \/ ReadCounter(w) \/ Render(w) \/ WriteCounter(w)
    \/ Release(w)

Next ==
    \/ Setup \/ Start \/ StartDone \/ Join \/ JoinDone \/ WriteNewline
    \/ \E w \in DOMAIN pc : Dequeue(w)
    \/ \E w \in DOMAIN pc : DequeueEmpty(w)
    \/ \E w \in DOMAIN pc : WorkReturn(w)
    \/ \E w \in DOMAIN pc : WorkRaise(w)
    \/ \E w \in DOMAIN pc : WorkHang(w)
    \/ \E w \in DOMAIN pc : Acquire(w)
    \/ \E w \in DOMAIN pc : ReadCounter(w)
    \/ \E w \in DOMAIN pc : Render(w)
    \/ \E w \in DOMAIN pc : WriteCounter(w)
    \/ \E w \in DOMAIN pc : Release(w)

Spec == Init /\ [][Next]_vars

\* Every process that can take a step is eventually scheduled.
FairSpec ==
    /\ Spec
    /\ WF_vars(Main)
    /\ \A w \in 0..MaxProc : WF_vars(w \in DOMAIN pc /\ Worker(w))

\* ------------------------------------------------------------ vocabulary
N == Len(data)

Returned == mainPc = "returned"

\* No work invocation has raised.
NoFailure == failures = {}

Hung == {w \in DOMAIN pc : pc[w] = "hung"}

\* The statements between lock.acquire() and lock.release().
CriticalLabels == {"read", "render", "put", "release"}

InCritical == {w \in DOMAIN pc : pc[w] \in CriticalLabels}

\* The items handed to the work function so far, and the workers that got them.
CalledItems == {k \in DOMAIN calls : calls[k] /= <<>>}

CallingWorkers == UNION {Range(calls[k]) : k \in DOMAIN calls}

\* The workers holding a dequeued item that has not been handed to work yet.
Pending == {w \in DOMAIN pc : item[w] /= NoItem /\ pc[w] /= "hung"}

\* An entry of out that is a progress line (not the final newline).
IsMeter(x) == x[1] = "meter"

\* ------------------------------------------------------------------- C1
\* C1: for process_cnt >= 1, when parallel() has returned and no work
\* invocation raised, the counter cell holds exactly len(data).
C1_CounterEndsAtN ==
    (Returned /\ process_cnt >= 1 /\ NoFailure) => shared = <<N>>

C1_Witness ==
    /\ Returned /\ NoFailure
    /\ process_cnt = MaxProc /\ N = MaxItems
    /\ shared = <<MaxItems>>

\* ------------------------------------------------------------------- C2
\* C2: no item is handed to the work function twice, whatever the
\* interleaving and whether or not invocations raise: every item has been
\* handed over at most once, no item handed over is back in the queue, and
\* an item a worker has dequeued and not yet handed over is neither in the
\* queue, nor handed over before, nor held by another worker.
C2_NoItemTwice ==
    /\ \A k \in DOMAIN calls : Len(calls[k]) <= 1
    /\ CalledItems \cap Range(src) = {}
    /\ \A w \in Pending :
          /\ item[w] \notin Range(src)
          /\ item[w] \notin CalledItems
          /\ \A v \in Pending : v /= w => item[v] /= item[w]

C2_Witness ==
    /\ failures /= {}
    /\ CalledItems = 1..MaxItems
    /\ Cardinality(CallingWorkers) >= 2

\* ------------------------------------------------------------------- C3
\* C3: for process_cnt >= 1, when parallel() has returned and no work
\* invocation raised, the queue is empty and the work function has seen
\* exactly len(data) (worker index, item) pairs, one for each item.
C3_EveryItemOnce ==
    (Returned /\ process_cnt >= 1 /\ NoFailure) =>
        /\ src = <<>>
        /\ \A k \in 1..N : Len(calls[k]) = 1
        /\ CallingWorkers \subseteq Workers

C3_Witness ==
    /\ Returned /\ NoFailure
    /\ N = MaxItems
    /\ src = <<>>
    /\ \A k \in 1..MaxItems : Len(calls[k]) = 1
    /\ Cardinality(CallingWorkers) >= 2

\* ------------------------------------------------------------------- C4
\* C4: at most one worker is between lock.acquire() and lock.release(), and
\* while a worker has read the counter and not yet stored it, nothing but
\* its own render is written to stderr and nobody else touches the counter.
C4_OneInCritical == Cardinality(InCritical) <= 1

C4_NoForeignWrite ==
    \A w \in DOMAIN pc :
        pc[w] \in {"render", "put"} =>
            /\ out' /= out => (pc[w] = "render" /\ pc'[w] = "put")
            /\ shared' /= shared => (pc[w] = "put" /\ pc'[w] = "release")

C4_MutualExclusion == [](C4_OneInCritical) /\ [][C4_NoForeignWrite]_vars

C4_Witness ==
    \E w, v \in DOMAIN pc :
        /\ w /= v
        /\ pc[w] = "render"
        /\ pc[v] = "acquire"
        /\ new_id[w] >= 2

\* ------------------------------------------------------------------- C5
\* C5: while no work invocation has raised, the progress lines written are
\* those of the counts 0, 1, 2, ... in this order (the first by parallel(),
\* each later one 1 above the one before it, whichever worker writes it), and
\* once parallel() has returned with process_cnt >= 1 the last count is
\* len(data).
MeterCount == Cardinality({k \in 1..Len(out) : IsMeter(out[k])})

C5_RenderSequence ==
    NoFailure =>
        /\ \A k \in 1..Len(out) : IsMeter(out[k]) => out[k] = Meter(k - 1, N)
        /\ \A k \in 1..Len(out) : ~IsMeter(out[k]) => k = Len(out)
        /\ (Returned /\ process_cnt >= 1) => MeterCount = N + 1

C5_Witness ==
    /\ Returned /\ NoFailure
    /\ process_cnt = MaxProc
    /\ Len(out) = MaxItems + 2
    /\ out[MaxItems + 1] = Meter(MaxItems, MaxItems)

\* ------------------------------------------------------------------- C6
\* C6 as stated: with an empty collection (len(data) = 0) no worker process
\* is ever started, and the call does not get stuck before it returns.
C6_NoWorkerStarted ==
    N = 0 =>
        /\ \A w \in DOMAIN pc : pc[w] = "idle"
        /\ Returned \/ ENABLED Next

\* C6 as amended: with an empty collection parallel() writes the count-0
\* line, starts its workers all the same, and each started worker leaves at
\* its first src.get without calling work, taking the lock or touching the
\* counter; the call never gets stuck, and it returns after the final '\n'
\* with every worker ended normally.
C6_EmptyRun ==
    N = 0 =>
        /\ CalledItems = {}
        /\ lock = Free
        /\ mainPc /= "call" => shared = <<InitialCount>>
        /\ \A w \in DOMAIN pc : pc[w] \in {"idle", "get", "done"}
        /\ Len(out) <= 2
        /\ \A k \in 1..Len(out) :
              out[k] = IF k = 1 THEN Meter(0, 0) ELSE Newline
        /\ Returned \/ ENABLED Next
        /\ Returned =>
              /\ out = <<Meter(0, 0), Newline>>
              /\ \A w \in DOMAIN pc : pc[w] = "done"

C6_Witness ==
    /\ N = 0
    /\ Returned
    /\ process_cnt = MaxProc
    /\ \A w \in Workers : pc[w] = "done"

\* ------------------------------------------------------------------- C7
\* C7 as stated: a call with process_cnt < 1 is rejected instead of
\* returning normally, so parallel() never returns from a non-empty
\* collection without any item having been handed to the work function.
C7_BadProcessCountRejected ==
    /\ (process_cnt < 1 /\ N > 0) => ~Returned
    /\ (Returned /\ N > 0) => CalledItems /= {}

\* ------------------------------------------------------------------- C8
\* C8: for process_cnt >= 1, under fair scheduling, a run in which no work
\* invocation raises or hangs reaches the return of parallel() (every worker
\* has then been joined); and no state of such a run before the return is
\* stuck.
Disturbed == ~NoFailure \/ Hung /= {}

C8_NotStuck == (process_cnt >= 1 /\ ~Disturbed /\ ~Returned) => ENABLED Next

C8_AllJoined ==
    (Returned /\ process_cnt >= 1) => \A w \in Workers : Ended(pc[w])

C9_FailurePropagates == \A f \in failures : pc[f[1]] = "crashed"

\* ------------------------------------------------------------------ C10
\* C10: once a work invocation has raised, the worker it stopped does not
\* hold the lock, a held lock is held by a worker that is inside the
\* critical section, and the counter cell holds exactly one value except
\* between the holder's shared.get() and shared.put(); so a worker waiting
\* in lock.acquire() is waiting only for a live holder, and with the lock
\* free it can take it and find the counter.
C10_FailureLeavesLockAndCounter ==
    failures /= {} =>
        /\ \A f \in failures : lock /= f[1]
        /\ lock /= Free => lock \in InCritical
        /\ Len(shared) =
              IF lock /= Free /\ pc[lock] \in {"render", "put"} THEN 0 ELSE 1
        /\ (lock = Free /\ \E w \in DOMAIN pc : pc[w] = "acquire") =>
              \E w \in DOMAIN pc : ENABLED Acquire(w)

C10_Witness ==
    /\ \E f \in failures : pc[f[1]] = "crashed"
    /\ \E w \in DOMAIN pc : pc[w] = "acquire"
    /\ lock = Free
    /\ shared = <<1>>

\* ------------------------------------------------------------------ C11
\* C11: once a work invocation has raised, the counter is below len(data)
\* for good (in the cell and in every worker's new_id) and no progress line
\* with count len(data) is written; and when parallel() has returned with
\* process_cnt >= 1, the counter cell holds len(data) exactly if no work
\* invocation raised.
C11_FailureKeepsCounterBelowN ==
    /\ failures /= {} =>
          /\ \A k \in 1..Len(shared) : shared[k] < N
          /\ \A w \in DOMAIN new_id : new_id[w] < N
          /\ \A k \in 1..Len(out) : out[k] /= Meter(N, N)
    /\ (Returned /\ process_cnt >= 1) => (shared = <<N>> <=> NoFailure)

C11_Witness ==
    /\ Returned
    /\ N = MaxItems
    /\ Cardinality(failures) = 1
    /\ shared = <<MaxItems - 1>>
    /\ out[Len(out) - 1] = Meter(MaxItems - 1, MaxItems)

\* ------------------------------------------------------------------ C12
\* C12: the index arguments of the processes lie in 0..process_cnt-1 and
\* differ from process to process, a process keeps its index argument, every
\* work invocation is made with the index argument of the process making it,
\* so every index recorded in calls lies in 0..process_cnt-1 and no two
\* invocations in progress at the same time carry the same index.
Invoking == {w \in DOMAIN pc : pc[w] \in {"work", "hung"}}

C12_IndexState ==
    /\ \A w \in DOMAIN index : index[w] \in 0..(process_cnt - 1)
    /\ \A w, v \in DOMAIN index : w /= v => index[w] /= index[v]
    /\ \A w, v \in Invoking : w /= v => index[w] /= index[v]
    /\ \A k \in DOMAIN calls :
          \A j \in 1..Len(calls[k]) : calls[k][j] \in 0..(process_cnt - 1)

C12_IndexStep ==
    /\ mainPc /= "call" => index' = index
    /\ \A k \in DOMAIN calls :
          calls'[k] /= calls[k] =>
              \E w \in DOMAIN pc :
                  /\ pc[w] = "work" /\ item[w] = k
                  /\ calls'[k] = Append(calls[k], index[w])

C12_WorkerIndex == [](C12_IndexState) /\ [][C12_IndexStep]_vars

C12_Witness ==
    /\ process_cnt = MaxProc
    /\ Cardinality(Invoking) = MaxProc
    /\ Cardinality(CallingWorkers) = MaxProc

\* ------------------------------------------------------------------ C13
\* The work invocations made so far, and those that returned normally.
NumCalls ==
    Cardinality(UNION {{<<k, j>> : j \in 1..Len(calls[k])} : k \in DOMAIN calls})

Successes == NumCalls - Cardinality(failures) - Cardinality(Hung)

HasNewline == \E k \in 1..Len(out) : out[k] = Newline

\* C13: while no work invocation has raised, stderr receives first the
\* count-0 line, written before any worker is started, then one line per
\* completed item (never more lines than work invocations that returned,
\* len(data) of them by the time parallel() returns with process_cnt >= 1),
\* then the single '\n', which is written only after every worker has ended;
\* nothing is written after it.
C13_StreamState ==
    NoFailure =>
        /\ (\E w \in DOMAIN pc : pc[w] /= "idle") =>
              (Len(out) >= 1 /\ out[1] = Meter(0, N))
        /\ \A k \in 2..Len(out) : out[k] /= Meter(0, N)
        /\ mainPc /= "call" => MeterCount - 1 <= Successes
        /\ HasNewline =>
              /\ out[Len(out)] = Newline
              /\ \A k \in 1..(Len(out) - 1) : IsMeter(out[k])
              /\ \A w \in Workers : Ended(pc[w])
        /\ (Returned /\ process_cnt >= 1) =>
              /\ Len(out) = N + 2
              /\ MeterCount = N + 1
              /\ out[N + 2] = Newline

C13_StreamStep == (NoFailure /\ HasNewline) => out' = out

C13_StreamOrder == [](C13_StreamState) /\ [][C13_StreamStep]_vars

C13_Witness ==
    /\ Returned /\ NoFailure
    /\ process_cnt = MaxProc /\ N = MaxItems
    /\ Len(out) = MaxItems + 2
    /\ out[1] = Meter(0, MaxItems)
    /\ out[MaxItems + 2] = Newline
    /\ Cardinality(CallingWorkers) < MaxItems

\* ------------------------------------------------------------------ C14
\* C14 as stated: in every state where some worker has left normally, no
\* item is still waiting in the queue.
C14_DoneOnlyWhenDrained ==
    (\E w \in DOMAIN pc : pc[w] = "done") => src = <<>>

\* ------------------------------------------------------------------ C15
\* The progress counter: the value in the cell, or, while the lock holder
\* has taken it out, the value the holder is about to store.
CounterValue ==
    IF shared /= <<>> THEN Head(shared)
    ELSE IF lock \in DOMAIN new_id THEN new_id[lock]
    ELSE InitialCount

\* C15: the counter is created with value 0, every step leaves it as it is
\* or raises it by exactly 1, and it never exceeds the number of work
\* invocations that have returned normally.
C15_CounterState == mainPc /= "call" => (0 <= CounterValue /\ CounterValue <= Successes)

C15_CounterStep ==
    /\ mainPc = "call" => CounterValue' = 0
    /\ mainPc /= "call" =>
          (CounterValue' = CounterValue \/ CounterValue' = CounterValue + 1)

C15_CounterMonotone == [](C15_CounterState) /\ [][C15_CounterStep]_vars

C15_Witness ==
    /\ N = MaxItems
    /\ failures /= {}
    /\ NumCalls = MaxItems
    /\ Successes = MaxItems - 1
    /\ \E w \in DOMAIN pc : pc[w] = "render" /\ new_id[w] = MaxItems - 1
    /\ CounterValue = MaxItems - 1

\* ------------------------------------------------------------------ C16
\* The workers stopped by a raising work invocation.
FailedWorkers == {f[1] : f \in failures}

\* Nothing more will happen in the workers: each one is hung or has ended,
\* the lock is free and every work invocation that returned has been counted
\* and rendered; and if some worker left because it found the queue empty,
\* the queue is empty.
Quiet ==
    /\ mainPc \notin {"call", "start"}
    /\ \A w \in DOMAIN pc : pc[w] \in {"hung", "done", "crashed"}
    /\ lock = Free
    /\ shared = <<Successes>>
    /\ MeterCount - 1 = Successes
    /\ (\E w \in DOMAIN pc : pc[w] = "done" /\ w \notin FailedWorkers) =>
          src = <<>>

\* C16: a worker whose work invocation never returns stays where it is and
\* does not hold the lock; the join loop never gets past it, so the final
\* '\n' is never written and parallel() does not return; and, under fair
\* scheduling, the other workers go on until the queue is drained and all
\* their completed items are counted and rendered.
C16_HungState ==
    \A w \in Hung :
        /\ lock /= w
        /\ mainPc \in {"start", "join"}
        /\ mainPc = "join" => mi <= w
        /\ ~HasNewline

C16_HungStep == \A w \in Hung : pc'[w] = "hung"

C16_Hang ==
    /\ [](C16_HungState)
    /\ [][C16_HungStep]_vars
    /\ (Hung /= {}) ~> Quiet

C16_Witness ==
    /\ Cardinality(Hung) = 1
    /\ NoFailure
    /\ Quiet
    /\ process_cnt = MaxProc /\ N = MaxItems
    /\ src = <<>>
    /\ shared = <<MaxItems - 1>>
    /\ mainPc = "join"

\* ------------------------------------------------------------------ C17
\* C17: with process_cnt = 1 at most one work invocation is in progress, the
\* items are dequeued and handed to work in the order of data (the queue is
\* always the rest of data, the items handed over are a prefix of data and
\* the item in hand is the next one), the worker is back at src.get only
\* with every returned invocation counted and rendered and the lock free;
\* and for every process_cnt >= 1 the counter after a return without
\* failures is len(data), the same as with one process.
Dequeued == N - Len(src)

C17_Sequential ==
    /\ (process_cnt = 1 /\ mainPc /= "call") =>
          /\ Cardinality(Invoking) <= 1
          /\ src = SubSeq(data, Dequeued + 1, N)
          /\ \A w \in DOMAIN pc :
                IF pc[w] \in {"work", "hung"}
                THEN /\ item[w] = data[Dequeued]
                     /\ CalledItems \cup (IF pc[w] = "work" THEN {item[w]} ELSE {})
                            = {data[k] : k \in 1..Dequeued}
                ELSE CalledItems = {data[k] : k \in 1..Dequeued}
          /\ \A w \in DOMAIN pc :
                pc[w] \in {"get", "work"} =>
                    /\ lock = Free
                    /\ shared = <<Successes>>
                    /\ MeterCount - 1 = Successes
    /\ (Returned /\ process_cnt >= 1 /\ NoFailure) => CounterValue = N

C17_Witness ==
    /\ process_cnt = 1
    /\ N = MaxItems
    /\ 0 \in DOMAIN pc
    /\ pc[0] = "work"
    /\ item[0] = MaxItems
    /\ MeterCount = MaxItems
    /\ shared = <<MaxItems - 1>>

\* ------------------------------------------------------------------ C18
\* C18: once created, the counter cell never holds more than one value; it
\* holds exactly one whenever the lock is free, and it is empty exactly
\* while the lock holder is between its shared.get() and its shared.put();
\* so a worker at shared.get() always finds a value.
C18_CounterCell ==
    mainPc /= "call" =>
        /\ Len(shared) <= 1
        /\ lock = Free => Len(shared) = 1
        /\ shared = <<>> <=>
              (lock \in DOMAIN pc /\ pc[lock] \in {"render", "put"})
        /\ \A w \in DOMAIN pc :
              pc[w] = "read" => (lock = w /\ ENABLED ReadCounter(w))

C18_Witness ==
    \E w, v \in DOMAIN pc :
        /\ pc[w] = "read" /\ lock = w
        /\ shared = <<MaxItems - 2>>
        /\ pc[v] = "acquire"

\* ------------------------------------------------------------------ C19
\* C19: once the queue is filled, the items in the queue, the items of the
\* work invocations in progress and the items whose invocation has returned
\* or raised add up to len(data); a worker has an item in hand exactly while
\* its invocation is in progress, so at most process_cnt invocations are in
\* progress at once.
Finished == NumCalls - Cardinality(Hung)

C19_Conservation ==
    mainPc /= "call" =>
        /\ Len(src) + Cardinality(Invoking) + Finished = N
        /\ \A w \in DOMAIN pc : item[w] /= NoItem <=> w \in Invoking
        /\ \A w \in DOMAIN pc : item[w] \in {NoItem} \cup Range(data)
        /\ Cardinality(Invoking) <= Cardinality(Workers)
        /\ Cardinality({item[w] : w \in Invoking}) = Cardinality(Invoking)

C19_Witness ==
    /\ N = MaxItems
    /\ Cardinality(Invoking) = MaxProc
    /\ Cardinality(Hung) = 1
    /\ Finished >= 1

\* ------------------------------------------------------------------ C20
\* The workers that have not obtained an item so far.
Unserved ==
    {w \in DOMAIN pc : item[w] = NoItem /\ index[w] \notin CallingWorkers}

\* C20: a worker that has obtained no item has not called work, taken the
\* lock or read the counter, and is either not yet past its first src.get or
\* has left normally; with process_cnt > len(data), under fair scheduling,
\* every worker obtains an item or leaves normally, a run without raising or
\* hanging invocations returns, and it has then handed every item to work
\* once, left the counter at len(data), and at least
\* process_cnt - len(data) workers have left without ever obtaining an item.
C20_UnservedState ==
    /\ \A w \in Unserved :
          /\ pc[w] \in {"idle", "get", "done"}
          /\ lock /= w
          /\ new_id[w] = 0
          /\ w \notin FailedWorkers
    /\ (Returned /\ ~Disturbed /\ process_cnt > N) =>
          /\ \A k \in 1..N : Len(calls[k]) = 1
          /\ CounterValue = N
          /\ Cardinality(Unserved) >= process_cnt - N
          /\ \A w \in Unserved : pc[w] = "done"

C20_IdleWorkers ==
    /\ [](C20_UnservedState)
    /\ (process_cnt > N) =>
          /\ <>(Returned \/ Disturbed)
          /\ \A w \in 0..MaxProc :
                (w < process_cnt) =>
                    <>(w \in DOMAIN pc /\ (pc[w] = "done" \/ w \notin Unserved))

C20_Witness ==
    /\ Returned /\ ~Disturbed
    /\ process_cnt = MaxProc /\ N = MaxProc - 1
    /\ Cardinality(Unserved) = 1
    /\ CounterValue = N

====
